---- MODULE Spec2Model ----
(***************************************************************************)
(* Model of the Negocio-Admin server: the in-memory storage service        *)
(* (server/storage.ts, class MemStorage) and the REST handlers that call   *)
(* it (server/routes.ts).                                                  *)
(*                                                                         *)
(* Representation.                                                         *)
(*  - A JavaScript Map is a function from keys to records; a JavaScript    *)
(*    object is a record whose DOMAIN is its set of own properties, so an  *)
(*    absent property and a property holding undefined are different.      *)
(*  - randomUUID() is a generator of identifiers that never repeats; the   *)
(*    n-th identifier drawn by the process is the integer n.               *)
(*  - A Date is an integer number of clock ticks.  JSON carries a date as  *)
(*    a string; a well-formed one denotes the same instant.                *)
(*  - Number-typed values that are not numbers are the negative integers   *)
(*    Null, Undefined and InvalidDate; string-typed ones are NullStr,      *)
(*    UndefStr and NotAString.                                             *)
(***************************************************************************)
EXTENDS Integers, Sequences, FiniteSets, TLC

VARIABLES
    clients,        \* MemStorage.clients     : Map<string, Client>
    products,       \* MemStorage.products    : Map<string, Product>
    suppliers,      \* MemStorage.suppliers   : Map<string, Supplier>
    orders,         \* MemStorage.orders      : Map<string, Order>
    orderItems,     \* MemStorage.orderItems  : Map<string, OrderItem>
    deliveries,     \* MemStorage.deliveries  : Map<string, Delivery>
    invoices,       \* MemStorage.invoices    : Map<string, Invoice>
    orderCounter,   \* MemStorage.orderCounter
    uuids,          \* number of identifiers randomUUID() has returned
    clock,          \* the instant new Date() returns
    issued,         \* history: the orders created and the number each was given, in order
    requests,       \* history: number of requests served
    last,           \* history: the last request served and its response
    call,           \* the getOrders() or getDeliveries() call in flight, between its awaits
    form            \* client/src/pages/orders.tsx: the rows of the order form and what it sent

vars == <<clients, products, suppliers, orders, orderItems, deliveries,
          invoices, orderCounter, uuids, clock, issued, requests, last, call, form>>

store == <<clients, products, suppliers, orders, orderItems, deliveries, invoices>>

\* the entity maps, as one value
Store ==
    [clients |-> clients, products |-> products, suppliers |-> suppliers, orders |-> orders,
     orderItems |-> orderItems, deliveries |-> deliveries, invoices |-> invoices]

-----------------------------------------------------------------------------
(* Bounds of the model *)

MaxRequests == 2        \* requests served in one behaviour
MaxTicks == 1           \* clock ticks after start-up
TicksPerDay == 2        \* granularity of the clock: ticks in one day
DaysPerMonth == 2       \* length of a calendar month, in days

(* Program constants *)

OrderCounterSeed == 1000    \* this.orderCounter = 1000
ProductCount == 23          \* productNames.length

(* JavaScript values that are not of the field's type *)

Null == -1              \* null, in a number- or Date-typed position
Undefined == -2         \* undefined, in a number- or Date-typed position
InvalidDate == -3       \* new Date(x) for an x that is no date
NullStr == "<null>"
UndefStr == "<undefined>"
NotAString == "<not a string>"  \* a JSON value of another type where a string is expected
NaN == -4               \* the number that parseFloat yields for a text that is no number

-----------------------------------------------------------------------------
(* JavaScript object and Map primitives *)

\* { ...a, ...b }
Merge(a, b) ==
    [k \in (DOMAIN a) \cup (DOMAIN b) |-> IF k \in DOMAIN b THEN b[k] ELSE a[k]]

\* o.k for a number-typed and for a string-typed property
GetN(o, k) == IF k \in DOMAIN o THEN o[k] ELSE Undefined
GetS(o, k) == IF k \in DOMAIN o THEN o[k] ELSE UndefStr

\* truthiness
TruthyN(v) == v \notin {Null, Undefined}
TruthyS(v) == v \notin {NullStr, UndefStr, ""}

\* v || d
OrS(v, d) == IF TruthyS(v) THEN v ELSE d

\* map.set(k, v), map.delete(k) for each k of ks
MapSet(m, k, v) == [x \in (DOMAIN m) \cup {k} |-> IF x = k THEN v ELSE m[x]]
MapDelete(m, ks) == [x \in (DOMAIN m) \ ks |-> m[x]]

\* new Date(x) for a JSON value x: a well-formed date string is that instant,
\* null is the epoch, anything else (undefined included) is an Invalid Date
NewDate(x) == IF x >= 0 THEN x ELSE IF x = Null THEN 0 ELSE InvalidDate

\* the least element of a non-empty set of integers
Min(S) == CHOOSE x \in S : \A y \in S : x <= y

-----------------------------------------------------------------------------
(* Start-up: constructor and seedData.  Identifiers in the order drawn. *)

StartClock == 2 * TicksPerDay + 1

NovaAreiao == 1
Ferrovia == 2
ProductIds == [i \in 1..ProductCount |-> 2 + i]
Client1 == ProductCount + 3
Client2 == ProductCount + 4
Client3 == ProductCount + 5
Order1 == ProductCount + 6
OrderItem1 == ProductCount + 7
Order2 == ProductCount + 8
OrderItem2a == ProductCount + 9
OrderItem2b == ProductCount + 10
Order3 == ProductCount + 11
OrderItem3 == ProductCount + 12
Delivery1 == ProductCount + 13
Delivery2 == ProductCount + 14
Delivery3 == ProductCount + 15
Invoice1 == ProductCount + 16
SeedUuids == ProductCount + 16

ProductNames ==
    << "Areia Media", "Areia Fina", "Areia Grossa", "Areia Media Grossa",
       "Areia Media Fina", "Brita 1", "Brita 2", "Brita 3", "Brita 4", "Rachao",
       "BGS", "Pedrisco Limpo", "Po de Pedra", "Rachao Reciclado",
       "Areia Desclassificada", "Argila Expandida", "Bica Reciclada",
       "Brita Reciclada", "Brita 1 Reciclada", "Brita 2 Reciclada",
       "Brita 3 Reciclada", "Brita 4 Reciclada", "Areia De Quadra" >>

SeedClient(id, type, name, tradeName, document, stateRegistration, phone, complement, notes) ==
    [id |-> id, type |-> type, name |-> name, tradeName |-> tradeName,
     document |-> document, stateRegistration |-> stateRegistration,
     email |-> "email", phone |-> phone, cellphone |-> "cellphone",
     zipCode |-> "zipCode", street |-> "street", number |-> "number",
     complement |-> complement, neighborhood |-> "neighborhood",
     city |-> "Sao Paulo", state |-> "SP", notes |-> notes, active |-> TRUE]

SeedOrder(id, n, clientId, supplierId, status, totalValue, notes, createdAt) ==
    [id |-> id, orderNumber |-> n, clientId |-> clientId, supplierId |-> supplierId,
     status |-> status, totalValue |-> totalValue, notes |-> notes,
     createdAt |-> createdAt]

SeedItem(id, orderId, productId, quantity, unitPrice, totalPrice) ==
    [id |-> id, orderId |-> orderId, productId |-> productId, quantity |-> quantity,
     unitPrice |-> unitPrice, totalPrice |-> totalPrice]

SeedDelivery(id, orderId, scheduledDate, scheduledTime, status, driverName, vehiclePlate, notes, deliveredAt) ==
    [id |-> id, orderId |-> orderId, scheduledDate |-> scheduledDate,
     scheduledTime |-> scheduledTime, status |-> status,
     deliveryAddress |-> "address", driverName |-> driverName,
     vehiclePlate |-> vehiclePlate, notes |-> notes, deliveredAt |-> deliveredAt]

seedData(today) ==
    LET yesterday == today - TicksPerDay
        twoDaysAgo == today - 2 * TicksPerDay
    IN  [suppliers |->
            (NovaAreiao :> [id |-> NovaAreiao, name |-> "Nova Areiao", active |-> TRUE])
         @@ (Ferrovia :> [id |-> Ferrovia, name |-> "Ferrovia", active |-> TRUE]),
         products |->
            [p \in {ProductIds[i] : i \in 1..ProductCount} |->
                [id |-> p, name |-> ProductNames[p - 2], unit |-> "m3", active |-> TRUE]],
         clients |->
            (Client1 :> SeedClient(Client1, "PJ", "Construtora ABC Ltda", "Construtora ABC",
                                   "12345678000199", "123456789", "(11) 3333-4444",
                                   "Sala 501", "Cliente desde 2020"))
         @@ (Client2 :> SeedClient(Client2, "PJ", "Incorporadora XYZ S/A", "XYZ Incorporacoes",
                                   "98765432000188", "987654321", "(11) 2222-3333",
                                   "10 andar", "Grande volume mensal"))
         @@ (Client3 :> SeedClient(Client3, "PF", "Joao da Silva", NullStr,
                                   "12345678901", NullStr, NullStr, NullStr, NullStr)),
         orders |->
            (Order1 :> SeedOrder(Order1, OrderCounterSeed + 1, Client1, NovaAreiao,
                                 "pending", "4500.00", "Entrega urgente", today))
         @@ (Order2 :> SeedOrder(Order2, OrderCounterSeed + 2, Client2, Ferrovia,
                                 "confirmed", "8750.00", NullStr, yesterday))
         @@ (Order3 :> SeedOrder(Order3, OrderCounterSeed + 3, Client1, NovaAreiao,
                                 "delivered", "2100.00", NullStr, twoDaysAgo)),
         orderItems |->
            (OrderItem1 :> SeedItem(OrderItem1, Order1, ProductIds[1], "30", "150.00", "4500.00"))
         @@ (OrderItem2a :> SeedItem(OrderItem2a, Order2, ProductIds[6], "25", "200.00", "5000.00"))
         @@ (OrderItem2b :> SeedItem(OrderItem2b, Order2, ProductIds[7], "15", "250.00", "3750.00"))
         @@ (OrderItem3 :> SeedItem(OrderItem3, Order3, ProductIds[2], "14", "150.00", "2100.00")),
         deliveries |->
            (Delivery1 :> SeedDelivery(Delivery1, Order1, today, "14:00", "pending",
                                       "Carlos Oliveira", "ABC-1234",
                                       "Entrar pela portaria de servico", Null))
         @@ (Delivery2 :> SeedDelivery(Delivery2, Order2, today, "09:00", "in_transit",
                                       "Roberto Santos", "XYZ-5678", NullStr, Null))
         @@ (Delivery3 :> SeedDelivery(Delivery3, Order3, twoDaysAgo, "10:30", "delivered",
                                       "Carlos Oliveira", "ABC-1234", NullStr, twoDaysAgo)),
         invoices |->
            (Invoice1 :> [id |-> Invoice1, orderId |-> Order3, invoiceNumber |-> "000123",
                          series |-> "1", issueDate |-> twoDaysAgo, value |-> "2100.00",
                          notes |-> NullStr]),
         orderCounter |-> OrderCounterSeed + 3]

NoRequest == [op |-> "start", id |-> Null, body |-> << >>, status |-> Null]

\* no getOrders() or getDeliveries() call has started
NoCall ==
    [pc |-> "idle", op |-> "none", snapshot |-> << >>, i |-> 0, part |-> << >>,
     result |-> << >>, seen |-> << >>]

\* "" where an identifier is expected
NoId == -5

\* useState of the order form: one empty row, and nothing sent yet
NewRow == [productId |-> NoId, quantity |-> 1, unitPrice |-> 0]
NewForm == [orderItems |-> <<NewRow>>, sent |-> << >>]

Init ==
    LET seed == seedData(StartClock)
    IN  /\ clock = StartClock
        /\ clients = seed.clients
        /\ products = seed.products
        /\ suppliers = seed.suppliers
        /\ orders = seed.orders
        /\ orderItems = seed.orderItems
        /\ deliveries = seed.deliveries
        /\ invoices = seed.invoices
        /\ orderCounter = seed.orderCounter
        /\ uuids = SeedUuids
        /\ issued = << [id |-> Order1, orderNumber |-> seed.orders[Order1].orderNumber],
                       [id |-> Order2, orderNumber |-> seed.orders[Order2].orderNumber],
                       [id |-> Order3, orderNumber |-> seed.orders[Order3].orderNumber] >>
        /\ requests = 0
        /\ last = NoRequest
        /\ call = NoCall
        /\ form = NewForm

-----------------------------------------------------------------------------
(* shared/schema.ts: the insert schema of a client, as zod checks it *)

ClientRequired == {"type", "name", "document"}
ClientNullable == {"tradeName", "stateRegistration", "email", "phone", "cellphone",
                   "zipCode", "street", "number", "complement", "neighborhood",
                   "city", "state", "notes"}
InsertClientKeys == ClientRequired \cup ClientNullable \cup {"active"}

\* every property the schema knows holds a value of its type
ClientTypesOk(body) ==
    /\ \A k \in (DOMAIN body) \cap (ClientRequired \cup ClientNullable) : body[k] # NotAString
    /\ \A k \in (DOMAIN body) \cap ClientRequired : body[k] # NullStr

\* insertClientSchema.parse(body): ok, and the parsed value (unknown keys stripped)
insertClientSchemaParse(body) ==
    [ok |-> ClientRequired \subseteq DOMAIN body /\ ClientTypesOk(body),
     data |-> [k \in (DOMAIN body) \cap InsertClientKeys |-> body[k]]]

\* insertClientSchema.partial().parse(body)
insertClientSchemaPartialParse(body) ==
    [ok |-> ClientTypesOk(body),
     data |-> [k \in (DOMAIN body) \cap InsertClientKeys |-> body[k]]]

-----------------------------------------------------------------------------
(* server/storage.ts: the operations of MemStorage, as functions of the      *)
(* current state.  Each yields the maps it leaves behind and what it returns. *)

\* map.get(k) of a key the map does not hold
UndefinedObj == [isUndefined |-> TRUE]

getClient(id) == IF id \in DOMAIN clients THEN clients[id] ELSE UndefinedObj

\* a variant that leaves out the properties holding null
createClientDropsNulls(insertClient) ==
    LET id == uuids + 1
        kept == {k \in DOMAIN insertClient : insertClient[k] # NullStr}
    IN  [clients |-> MapSet(clients, id, Merge([k \in kept |-> insertClient[k]], [id |-> id])),
         uuids |-> id, id |-> id]

createClient(insertClient) ==
    LET id == uuids + 1
    IN  [clients |-> MapSet(clients, id, Merge(insertClient, [id |-> id])),
         uuids |-> id, id |-> id]

updateClient(id, data) ==
    IF id \notin DOMAIN clients
    THEN [found |-> FALSE, clients |-> clients]
    ELSE [found |-> TRUE, clients |-> MapSet(clients, id, Merge(clients[id], data))]

deleteClient(id) ==
    [deleted |-> id \in DOMAIN clients, clients |-> MapDelete(clients, {id})]

\* a null element of the items array
NullItem == [isNull |-> TRUE]

\* a variant that takes the number the payload names
orderNumberFromPayload(orderData) ==
    IF "orderNumber" \in DOMAIN orderData THEN orderData.orderNumber ELSE orderCounter + 1

\* this.orderCounter++, and the number the new order is given
nextOrderNumber(orderData) == orderCounter + 1

createOrder(orderData, items) ==
    LET id == uuids + 1
        n == nextOrderNumber(orderData)
        order == [id |-> id,
                  orderNumber |-> n,
                  clientId |-> GetN(orderData, "clientId"),
                  supplierId |-> GetN(orderData, "supplierId"),
                  status |-> OrS(GetS(orderData, "status"), "pending"),
                  totalValue |-> OrS(GetS(orderData, "totalValue"), "0"),
                  notes |-> OrS(GetS(orderData, "notes"), NullStr),
                  createdAt |-> clock]
        \* reading a property of a null item throws, after its identifier is drawn
        bad == {i \in 1..Len(items) : items[i] = NullItem}
        done == IF bad = {} THEN Len(items) ELSE Min(bad) - 1
        orderItem(i) == [id |-> id + i,
                         orderId |-> id,
                         productId |-> GetN(items[i], "productId"),
                         quantity |-> GetS(items[i], "quantity"),
                         unitPrice |-> GetS(items[i], "unitPrice"),
                         totalPrice |-> GetS(items[i], "totalPrice")]
    IN  [threw |-> bad # {},
         id |-> id,
         orderCounter |-> n,
         orders |-> MapSet(orders, id, order),
         orderItems |-> [k \in (DOMAIN orderItems) \cup {id + i : i \in 1..done} |->
                            IF k \in DOMAIN orderItems THEN orderItems[k]
                            ELSE orderItem(k - id)],
         uuids |-> id + done + (IF bad = {} THEN 0 ELSE 1)]

\* a variant that stores the data under an id it did not find
updateOrderUpsert(id, data) ==
    [found |-> id \in DOMAIN orders,
     orders |-> MapSet(orders, id, IF id \in DOMAIN orders THEN Merge(orders[id], data) ELSE data)]

updateOrder(id, data) ==
    IF id \notin DOMAIN orders
    THEN [found |-> FALSE, orders |-> orders]
    ELSE [found |-> TRUE, orders |-> MapSet(orders, id, Merge(orders[id], data))]

\* each cascade deletes the keys named by the id property of the records it found
deleteOrder(id) ==
    LET items == {orderItems[k].id : k \in {x \in DOMAIN orderItems : orderItems[x].orderId = id}}
        dels == {deliveries[k].id : k \in {x \in DOMAIN deliveries : deliveries[x].orderId = id}}
        invs == {invoices[k].id : k \in {x \in DOMAIN invoices : invoices[x].orderId = id}}
    IN  [deleted |-> id \in DOMAIN orders,
         orderItems |-> MapDelete(orderItems, items),
         deliveries |-> MapDelete(deliveries, dels),
         invoices |-> MapDelete(invoices, invs),
         orders |-> MapDelete(orders, {id})]

createDelivery(insertDelivery) ==
    LET id == uuids + 1
        delivery == [id |-> id,
                     orderId |-> GetN(insertDelivery, "orderId"),
                     scheduledDate |-> GetN(insertDelivery, "scheduledDate"),
                     scheduledTime |-> OrS(GetS(insertDelivery, "scheduledTime"), NullStr),
                     status |-> OrS(GetS(insertDelivery, "status"), "pending"),
                     deliveryAddress |-> OrS(GetS(insertDelivery, "deliveryAddress"), NullStr),
                     driverName |-> OrS(GetS(insertDelivery, "driverName"), NullStr),
                     vehiclePlate |-> OrS(GetS(insertDelivery, "vehiclePlate"), NullStr),
                     notes |-> OrS(GetS(insertDelivery, "notes"), NullStr),
                     deliveredAt |-> Null]
    IN  [deliveries |-> MapSet(deliveries, id, delivery), uuids |-> id, id |-> id]

\* a variant that stamps on every change to "delivered"
deliveredAtRestamped(delivery, data) ==
    IF GetS(data, "status") = "delivered" THEN clock ELSE GetN(delivery, "deliveredAt")

\* a variant that lets the payload's deliveredAt through
deliveredAtFromPayload(delivery, data) ==
    IF GetS(data, "status") = "delivered" /\ ~TruthyN(GetN(delivery, "deliveredAt"))
    THEN clock
    ELSE GetN(Merge(delivery, data), "deliveredAt")

\* the deliveredAt an update leaves: stamped on the first change to "delivered"
deliveredAtAfter(delivery, data) ==
    IF GetS(data, "status") = "delivered" /\ ~TruthyN(GetN(delivery, "deliveredAt"))
    THEN clock
    ELSE GetN(delivery, "deliveredAt")

updateDelivery(id, data) ==
    IF id \notin DOMAIN deliveries
    THEN [found |-> FALSE, deliveries |-> deliveries]
    ELSE LET delivery == deliveries[id]
             updated == Merge(Merge(delivery, data),
                              [deliveredAt |-> deliveredAtAfter(delivery, data)])
         IN  [found |-> TRUE, deliveries |-> MapSet(deliveries, id, updated)]

createInvoice(insertInvoice) ==
    LET id == uuids + 1
        invoice == [id |-> id,
                    orderId |-> GetN(insertInvoice, "orderId"),
                    invoiceNumber |-> GetS(insertInvoice, "invoiceNumber"),
                    series |-> OrS(GetS(insertInvoice, "series"), NullStr),
                    issueDate |-> GetN(insertInvoice, "issueDate"),
                    value |-> OrS(GetS(insertInvoice, "value"), NullStr),
                    notes |-> OrS(GetS(insertInvoice, "notes"), NullStr)]
    IN  [invoices |-> MapSet(invoices, id, invoice), uuids |-> id, id |-> id]

-----------------------------------------------------------------------------
(* server/storage.ts: the read operations, as functions of the current state. *)
(* An array is a sequence.                                                    *)

\* Array.from(map.values()) lists the records in insertion order.  A key is
\* inserted once, with a fresh identifier, and the identifiers are drawn in
\* increasing order, so insertion order is the order of the keys.
\* InOrder(m, keys) is the array of the records of m under keys, in that order.
InOrder(m, keys) ==
    LET rank == [k \in keys |-> 1 + Cardinality({j \in keys : j < k})]
    IN  [r \in 1..Cardinality(keys) |-> m[CHOOSE k \in keys : rank[k] = r]]

Values(m) == InOrder(m, DOMAIN m)

\* Array.from(map.values()).filter(test) is InOrder(map, the keys of the records
\* that pass the test)

getProduct(id) == IF id \in DOMAIN products THEN products[id] ELSE UndefinedObj

getSupplier(id) == IF id \in DOMAIN suppliers THEN suppliers[id] ELSE UndefinedObj

\* a variant that forgets the filter
getOrderItemsUnfiltered(orderId) == Values(orderItems)

getOrderItems(orderId) ==
    InOrder(orderItems, {k \in DOMAIN orderItems : orderItems[k].orderId = orderId})

\* a variant that compares the invoice's own id
getInvoicesById(orderId) ==
    InOrder(invoices, {k \in DOMAIN invoices : invoices[k].id = orderId})

getInvoices(orderId) ==
    InOrder(invoices, {k \in DOMAIN invoices : invoices[k].orderId = orderId})

buildOrderWithDetails(order) ==
    LET items == getOrderItems(order.id)
    IN  Merge(order,
              [client |-> getClient(order.clientId),
               supplier |-> getSupplier(order.supplierId),
               items |-> [i \in 1..Len(items) |->
                             Merge(items[i], [product |-> getProduct(items[i].productId)])],
               deliveries |-> InOrder(deliveries,
                                     {k \in DOMAIN deliveries : deliveries[k].orderId = order.id}),
               invoices |-> getInvoices(order.id)])

buildDeliveryWithDetails(delivery) ==
    LET id == delivery.orderId
    IN  Merge(delivery,
              [order |-> IF id \in DOMAIN orders
                         THEN Merge(orders[id],
                                    [client |-> getClient(orders[id].clientId),
                                     supplier |-> getSupplier(orders[id].supplierId)])
                         ELSE UndefinedObj])

\* array.sort((a, b) => new Date(b[f]).getTime() - new Date(a[f]).getTime()):
\* the arrays the call can return.  With every date valid the comparator is
\* consistent and the sort, which is stable, has one result; with an Invalid
\* Date the comparator yields NaN, it is not consistent and the order of the
\* result is implementation-defined.
SortByDateDesc(arr, f) ==
    LET n == Len(arr)
        t == [i \in 1..n |-> NewDate(GetN(arr[i], f))]
        before(i, j) == t[i] > t[j] \/ (t[i] = t[j] /\ i < j)
        rank == [i \in 1..n |-> 1 + Cardinality({j \in 1..n : before(j, i)})]
        at(r) == CHOOSE i \in 1..n : rank[i] = r
    IN  IF \A i \in 1..n : t[i] >= 0
        THEN {[r \in 1..n |-> arr[at(r)]]}
        ELSE {[r \in 1..n |-> arr[p[r]]] : p \in Permutations(1..n)}

\* the arrays getOrders() can return
getOrders ==
    LET all == Values(orders)
    IN  SortByDateDesc([i \in 1..Len(all) |-> buildOrderWithDetails(all[i])], "createdAt")

getOrder(id) == IF id \in DOMAIN orders THEN buildOrderWithDetails(orders[id]) ELSE UndefinedObj

\* a variant that keeps one element more
Slice0OneMore(arr, limit) == SubSeq(arr, 1, IF limit + 1 < Len(arr) THEN limit + 1 ELSE Len(arr))

\* array.slice(0, limit), limit a non-negative integer
Slice0(arr, limit) == SubSeq(arr, 1, IF limit < Len(arr) THEN limit ELSE Len(arr))

\* the arrays getRecentOrders(limit) can return
getRecentOrders(limit) == {Slice0(all, limit) : all \in getOrders}

\* the arrays getDeliveries() can return
getDeliveries ==
    LET all == Values(deliveries)
    IN  SortByDateDesc([i \in 1..Len(all) |-> buildDeliveryWithDetails(all[i])], "scheduledDate")

\* a variant that leaves the time of day as it is
setHoursForgotten(t) == t

\* date.setHours(0, 0, 0, 0): the midnight that starts the day of instant t
setHours0(t) == t - (t % TicksPerDay)

getTodayDeliveries ==
    LET today == setHours0(clock)
        tomorrow == today + TicksPerDay
        \* a comparison with an Invalid Date is false
        isToday(d) == LET scheduledDate == NewDate(GetN(d, "scheduledDate"))
                      IN  scheduledDate >= 0 /\ scheduledDate >= today /\ scheduledDate < tomorrow
        found == InOrder(deliveries, {k \in DOMAIN deliveries : isToday(deliveries[k])})
    IN  [i \in 1..Len(found) |-> buildDeliveryWithDetails(found[i])]

\* parseFloat(s) of a monetary string, in cents
parseFloat(s) ==
    CASE s = "0" -> 0
      [] s = "1.00" -> 100
      [] s = "2100.00" -> 210000
      [] s = "4500.00" -> 450000
      [] s = "8250.00" -> 825000
      [] s = "8750.00" -> 875000
      [] OTHER -> NaN

\* a + b on numbers
Plus(a, b) == IF a = NaN \/ b = NaN THEN NaN ELSE a + b

\* a variant that counts from the epoch
startOfEpoch(t) == 0

\* new Date(t.getFullYear(), t.getMonth(), 1): the first instant of the month of t
startOfMonthOf(t) == t - (t % (TicksPerDay * DaysPerMonth))

\* a variant that takes a client with no active field for an active one
isActiveUnlessFalse(c) == "active" \notin DOMAIN c \/ c.active

\* the truthiness of c.active
isActive(c) == "active" \in DOMAIN c /\ c.active

getDashboardStats ==
    LET allOrders == Values(orders)
        allClients == Values(clients)
        today == setHours0(clock)
        tomorrow == today + TicksPerDay
        isToday(d) == LET scheduledDate == NewDate(GetN(d, "scheduledDate"))
                      IN  scheduledDate >= 0 /\ scheduledDate >= today /\ scheduledDate < tomorrow
        todayDeliveries == InOrder(deliveries, {k \in DOMAIN deliveries : isToday(deliveries[k])})
        startOfMonth == startOfMonthOf(today)
        isMonthly(o) == LET createdAt == NewDate(GetN(o, "createdAt"))
                        IN  createdAt >= 0 /\ createdAt >= startOfMonth
        monthlyOrders == SelectSeq(allOrders, isMonthly)
        isPending(o) == GetS(o, "status") = "pending"
        \* reduce((sum, o) => sum + parseFloat(o.totalValue?.toString() || "0"), 0)
        reduce[i \in 0..Len(monthlyOrders)] ==
            IF i = 0 THEN 0
            ELSE Plus(reduce[i - 1],
                      parseFloat(OrS(GetS(monthlyOrders[i], "totalValue"), "0")))
    IN  [pendingOrders |-> Len(SelectSeq(allOrders, isPending)),
         todayDeliveries |-> Len(todayDeliveries),
         activeClients |-> Len(SelectSeq(allClients, isActive)),
         monthlyValue |-> reduce[Len(monthlyOrders)]]

-----------------------------------------------------------------------------
(* The requests the model sends.  GhostId is an identifier randomUUID never *)
(* returns; CallerDate is an instant the clock never shows.                  *)

GhostId == NovaAreiao - 1
CallerDate == StartClock + MaxTicks + 1

PathIds(m) == (DOMAIN m) \cup {GhostId}

ClientPostBodies ==
    { [type |-> "PF", name |-> "Maria", document |-> "111", active |-> FALSE],
      [type |-> "PJ", name |-> "Obra", document |-> "222", tradeName |-> NullStr],
      [id |-> Client1, type |-> "PF", name |-> "Maria", document |-> "111", active |-> TRUE],
      [type |-> "PF", document |-> "333"],
      [type |-> "PF", name |-> NotAString, document |-> "444"] }

ClientPatchBodies ==
    { [name |-> "Renomeado"],
      [active |-> FALSE],
      [id |-> Client2, notes |-> "obs"],
      [name |-> NotAString],
      << >> }

ItemA == [orderId |-> Order1, productId |-> ProductIds[1], quantity |-> "30",
          unitPrice |-> "150.00", totalPrice |-> "4500.00"]
ItemB == [productId |-> ProductIds[7], quantity |-> "15",
          unitPrice |-> "250.00", totalPrice |-> "3750.00"]

OrderPostBodies ==
    { [order |-> [clientId |-> Client1, supplierId |-> NovaAreiao, totalValue |-> "8250.00"],
       items |-> <<ItemA, ItemB>>],
      [order |-> [id |-> Order1, orderNumber |-> OrderCounterSeed + 1, clientId |-> Client2,
                  supplierId |-> Ferrovia, status |-> "confirmed", createdAt |-> CallerDate],
       items |-> << >>],
      [order |-> [clientId |-> Client3, supplierId |-> Ferrovia]],
      [order |-> [clientId |-> Client3, supplierId |-> Ferrovia, totalValue |-> "4500.00"],
       items |-> <<ItemA, NullItem>>],
      [order |-> [clientId |-> Client3, supplierId |-> NovaAreiao, totalValue |-> ""],
       items |-> <<ItemB>>] }

OrderPatchBodies ==
    { [status |-> "confirmed"],
      [status |-> "shipped"],
      [orderNumber |-> OrderCounterSeed + 1],
      [id |-> Order1],
      [createdAt |-> CallerDate],
      [totalValue |-> "1.00", notes |-> "obs"],
      << >> }

\* further bodies sent where the views are watched
ViewOrderPostBodies ==
    { [order |-> [supplierId |-> Ferrovia, totalValue |-> "1.00"], items |-> <<ItemB>>] }

ViewOrderPatchBodies ==
    { [totalValue |-> ""],
      [totalValue |-> NullStr] }

DeliveryPostBodies ==
    { [orderId |-> Order1, scheduledDate |-> StartClock + 1, driverName |-> "Ana"],
      [id |-> Delivery1, orderId |-> GhostId, scheduledDate |-> StartClock,
       status |-> "delivered", deliveredAt |-> CallerDate],
      [orderId |-> Order2] }

DeliveryPatchBodies ==
    { [status |-> "delivered"],
      [status |-> "in_transit"],
      [status |-> "delivered", deliveredAt |-> CallerDate],
      [deliveredAt |-> CallerDate],
      [scheduledDate |-> StartClock + 1],
      [scheduledDate |-> StartClock - 1],
      [id |-> Delivery3],
      [driverName |-> "Ana", notes |-> "obs"],
      << >> }

InvoicePostBodies ==
    { [orderId |-> Order1, invoiceNumber |-> "000124", issueDate |-> StartClock],
      [orderId |-> GhostId, invoiceNumber |-> "000125", issueDate |-> StartClock,
       value |-> "10.00"],
      [orderId |-> Order2] }

-----------------------------------------------------------------------------
(* server/routes.ts: one action per mutating handler *)

\* the handler answers: the request and its status are recorded
\* A storage call in flight is a history of the states of the maps it ran in.
Respond(op, id, body, status) ==
    /\ requests' = requests + 1
    /\ last' = [op |-> op, id |-> id, body |-> body, status |-> status]
    /\ call' = IF call.pc \in {"idle", "done"} \/ store' = store THEN call
               ELSE [call EXCEPT !.seen = Append(@, Store')]
    /\ form' = form

\* POST /api/clients
PostClients(body) ==
    LET parsed == insertClientSchemaParse(body)
        r == createClient(parsed.data)
    IN  /\ requests < MaxRequests
        /\ UNCHANGED <<products, suppliers, orders, orderItems, deliveries, invoices,
                       orderCounter, clock, issued>>
        /\ IF parsed.ok
           THEN /\ clients' = r.clients
                /\ uuids' = r.uuids
                /\ Respond("POST /api/clients", r.id, body, 201)
           ELSE /\ UNCHANGED <<clients, uuids>>
                /\ Respond("POST /api/clients", Null, body, 400)

\* PATCH /api/clients/:id
PatchClient(id, body) ==
    LET parsed == insertClientSchemaPartialParse(body)
        r == updateClient(id, parsed.data)
    IN  /\ requests < MaxRequests
        /\ UNCHANGED <<products, suppliers, orders, orderItems, deliveries, invoices,
                       orderCounter, uuids, clock, issued>>
        /\ IF ~parsed.ok
           THEN /\ UNCHANGED clients
                /\ Respond("PATCH /api/clients/:id", id, body, 400)
           ELSE /\ clients' = r.clients
                /\ Respond("PATCH /api/clients/:id", id, body, IF r.found THEN 200 ELSE 404)

\* DELETE /api/clients/:id
DeleteClient(id) ==
    LET r == deleteClient(id)
    IN  /\ requests < MaxRequests
        /\ UNCHANGED <<products, suppliers, orders, orderItems, deliveries, invoices,
                       orderCounter, uuids, clock, issued>>
        /\ clients' = r.clients
        /\ Respond("DELETE /api/clients/:id", id, << >>, IF r.deleted THEN 204 ELSE 404)

\* POST /api/orders
PostOrders(body) ==
    LET valid == "order" \in DOMAIN body /\ "items" \in DOMAIN body
        r == createOrder(body.order, body.items)
    IN  /\ requests < MaxRequests
        /\ UNCHANGED <<clients, products, suppliers, deliveries, invoices, clock>>
        /\ IF ~valid
           THEN /\ UNCHANGED <<orders, orderItems, orderCounter, uuids, issued>>
                /\ Respond("POST /api/orders", Null, body, 400)
           ELSE /\ orders' = r.orders
                /\ orderItems' = r.orderItems
                /\ orderCounter' = r.orderCounter
                /\ uuids' = r.uuids
                /\ issued' = Append(issued, [id |-> r.id,
                                             orderNumber |-> r.orders[r.id].orderNumber])
                /\ Respond("POST /api/orders", r.id, body, IF r.threw THEN 500 ELSE 201)

\* PATCH /api/orders/:id
PatchOrder(id, body) ==
    LET r == updateOrder(id, body)
    IN  /\ requests < MaxRequests
        /\ UNCHANGED <<clients, products, suppliers, orderItems, deliveries, invoices,
                       orderCounter, uuids, clock, issued>>
        /\ orders' = r.orders
        /\ Respond("PATCH /api/orders/:id", id, body, IF r.found THEN 200 ELSE 404)

\* DELETE /api/orders/:id
DeleteOrder(id) ==
    LET r == deleteOrder(id)
    IN  /\ requests < MaxRequests
        /\ UNCHANGED <<clients, products, suppliers, orderCounter, uuids, clock, issued>>
        /\ orders' = r.orders
        /\ orderItems' = r.orderItems
        /\ deliveries' = r.deliveries
        /\ invoices' = r.invoices
        /\ Respond("DELETE /api/orders/:id", id, << >>, IF r.deleted THEN 204 ELSE 404)

\* POST /api/deliveries
PostDeliveries(body) ==
    LET data == Merge(body, [scheduledDate |-> NewDate(GetN(body, "scheduledDate"))])
        r == createDelivery(data)
    IN  /\ requests < MaxRequests
        /\ UNCHANGED <<clients, products, suppliers, orders, orderItems, invoices,
                       orderCounter, clock, issued>>
        /\ deliveries' = r.deliveries
        /\ uuids' = r.uuids
        /\ Respond("POST /api/deliveries", r.id, body, 201)

\* the data PATCH /api/deliveries/:id hands to updateDelivery
PatchDeliveryData(body) ==
    Merge(body, [scheduledDate |-> IF TruthyN(GetN(body, "scheduledDate"))
                                   THEN NewDate(body.scheduledDate)
                                   ELSE Undefined])

\* a variant that marks the order delivered along with its delivery
PatchDeliveryMarksOrder(id, body) ==
    LET r == updateDelivery(id, PatchDeliveryData(body))
        orderId == IF r.found THEN r.deliveries[id].orderId ELSE GhostId
    IN  /\ requests < MaxRequests
        /\ UNCHANGED <<clients, products, suppliers, orderItems, invoices,
                       orderCounter, uuids, clock, issued>>
        /\ deliveries' = r.deliveries
        /\ orders' = IF GetS(body, "status") = "delivered" /\ orderId \in DOMAIN orders
                     THEN MapSet(orders, orderId, Merge(orders[orderId], [status |-> "delivered"]))
                     ELSE orders
        /\ Respond("PATCH /api/deliveries/:id", id, body, IF r.found THEN 200 ELSE 404)

\* PATCH /api/deliveries/:id
PatchDelivery(id, body) ==
    LET r == updateDelivery(id, PatchDeliveryData(body))
    IN  /\ requests < MaxRequests
        /\ UNCHANGED <<clients, products, suppliers, orders, orderItems, invoices,
                       orderCounter, uuids, clock, issued>>
        /\ deliveries' = r.deliveries
        /\ Respond("PATCH /api/deliveries/:id", id, body, IF r.found THEN 200 ELSE 404)

\* POST /api/invoices
PostInvoices(body) ==
    LET data == Merge(body, [issueDate |-> NewDate(GetN(body, "issueDate"))])
        r == createInvoice(data)
    IN  /\ requests < MaxRequests
        /\ UNCHANGED <<clients, products, suppliers, orders, orderItems, deliveries,
                       orderCounter, clock, issued>>
        /\ invoices' = r.invoices
        /\ uuids' = r.uuids
        /\ Respond("POST /api/invoices", r.id, body, 201)

-----------------------------------------------------------------------------
(* server/routes.ts: one action per reading handler.  The handler sends what  *)
(* the storage read of its name returns; no storage read throws or writes, so *)
(* a list is always answered 200.                                             *)

\* res.json(...) or res.status(404) of a GET handler: nothing is stored
Answer(op, id, status) ==
    /\ requests < MaxRequests
    /\ UNCHANGED <<clients, products, suppliers, orders, orderItems, deliveries,
                   invoices, orderCounter, uuids, clock, issued>>
    /\ Respond(op, id, << >>, status)

\* GET /api/dashboard/stats
GetDashboardStats == Answer("GET /api/dashboard/stats", Null, 200)

\* GET /api/clients
GetClients == Answer("GET /api/clients", Null, 200)

\* GET /api/clients/:id
GetClient(id) ==
    LET client == getClient(id)
    IN  Answer("GET /api/clients/:id", id, IF client = UndefinedObj THEN 404 ELSE 200)

\* GET /api/products
GetProducts == Answer("GET /api/products", Null, 200)

\* GET /api/suppliers
GetSuppliers == Answer("GET /api/suppliers", Null, 200)

\* GET /api/orders
GetOrders == Answer("GET /api/orders", Null, 200)

\* GET /api/orders/recent
GetRecentOrders == Answer("GET /api/orders/recent", Null, 200)

\* GET /api/orders/:id
GetOrder(id) ==
    LET order == getOrder(id)
    IN  Answer("GET /api/orders/:id", id, IF order = UndefinedObj THEN 404 ELSE 200)

\* GET /api/deliveries
GetDeliveries == Answer("GET /api/deliveries", Null, 200)

\* GET /api/deliveries/today
GetTodayDeliveries == Answer("GET /api/deliveries/today", Null, 200)

\* storage.getDelivery(id)
getDelivery(id) ==
    IF id \in DOMAIN deliveries THEN buildDeliveryWithDetails(deliveries[id]) ELSE UndefinedObj

\* a variant that marks the delivery it returns as seen
GetDeliveryMarking(id) ==
    LET delivery == getDelivery(id)
    IN  /\ requests < MaxRequests
        /\ UNCHANGED <<clients, products, suppliers, orders, orderItems, invoices,
                       orderCounter, uuids, clock, issued>>
        /\ deliveries' = IF delivery = UndefinedObj THEN deliveries
                         ELSE MapSet(deliveries, id, Merge(deliveries[id], [notes |-> "seen"]))
        /\ Respond("GET /api/deliveries/:id", id, << >>,
                   IF delivery = UndefinedObj THEN 404 ELSE 200)

\* GET /api/deliveries/:id
GetDelivery(id) ==
    LET delivery == getDelivery(id)
    IN  Answer("GET /api/deliveries/:id", id, IF delivery = UndefinedObj THEN 404 ELSE 200)

\* GET /api/orders/:orderId/invoices: the list is sent whatever it holds
GetOrderInvoices(orderId) == Answer("GET /api/orders/:orderId/invoices", orderId, 200)

-----------------------------------------------------------------------------
(* server/storage.ts: getOrders() and getDeliveries() as they run, one action *)
(* for the code between two awaits.  Every storage read is an async function  *)
(* whose body runs when it is called, so a value is read where the call is    *)
(* written and the caller goes on after the await.  call.pc names the read    *)
(* at which the call goes on, call.snapshot is the array taken from the map,  *)
(* call.part the detail view of snapshot[i] as far as it is built.            *)

InFlight == call.pc \notin {"idle", "done"}

\* the call goes on to c, and nothing else changes
GoOn(c) ==
    /\ call' = c
    /\ UNCHANGED <<clients, products, suppliers, orders, orderItems, deliveries, invoices,
                   orderCounter, uuids, clock, issued, requests, last, form>>

\* buildOrderWithDetails(snapshot[i]) up to its first await
beginOrder(c, i) ==
    [c EXCEPT !.i = i, !.pc = "getSupplier",
              !.part = [client |-> getClient(c.snapshot[i].clientId)]]

\* buildDeliveryWithDetails(snapshot[i]) up to its first await, or to its end
\* when the order is not found
beginDelivery(c, i) ==
    LET delivery == c.snapshot[i]
    IN  IF delivery.orderId \in DOMAIN orders
        THEN LET order == orders[delivery.orderId]
             IN  [c EXCEPT !.i = i, !.pc = "getSupplierOfOrder",
                           !.part = [order |-> order, client |-> getClient(order.clientId)]]
        ELSE [c EXCEPT !.i = i, !.pc = "nextDelivery",
                       !.result = Append(@, Merge(delivery, [order |-> UndefinedObj]))]

\* getOrders(): Array.from(this.orders.values()) and the first iteration
getOrdersCall ==
    /\ call.pc = "idle"
    /\ LET c == [NoCall EXCEPT !.op = "getOrders", !.snapshot = Values(orders),
                               !.seen = <<Store>>]
       IN  GoOn(IF Len(c.snapshot) = 0 THEN [c EXCEPT !.pc = "done"] ELSE beginOrder(c, 1))

\* const supplier = await this.getSupplier(order.supplierId)
resumeAtGetSupplier ==
    /\ call.pc = "getSupplier"
    /\ GoOn([call EXCEPT !.pc = "getOrderItems",
                         !.part = Merge(@, [supplier |->
                                     getSupplier(call.snapshot[call.i].supplierId)])])

\* const items = await this.getOrderItems(order.id)
resumeAtGetOrderItems ==
    /\ call.pc = "getOrderItems"
    /\ GoOn([call EXCEPT !.pc = "getInvoices",
                         !.part = Merge(@, [items |-> getOrderItems(call.snapshot[call.i].id)])])

\* the filter of the deliveries and const invoices = await this.getInvoices(order.id)
resumeAtGetInvoices ==
    /\ call.pc = "getInvoices"
    /\ LET id == call.snapshot[call.i].id
       IN  GoOn([call EXCEPT !.pc = "getProduct",
                             !.part = Merge(@,
                                 [deliveries |-> InOrder(deliveries,
                                                     {k \in DOMAIN deliveries :
                                                         deliveries[k].orderId = id}),
                                  invoices |-> getInvoices(id)])])

\* the Promise.all over the items, and the view returned
resumeAtGetProduct ==
    /\ call.pc = "getProduct"
    /\ LET items == call.part.items
           itemsWithProducts ==
               [j \in 1..Len(items) |->
                   Merge(items[j], [product |-> getProduct(items[j].productId)])]
           view == Merge(call.snapshot[call.i],
                         Merge(call.part, [items |-> itemsWithProducts]))
       IN  GoOn([call EXCEPT !.pc = "nextOrder", !.part = << >>,
                             !.result = Append(@, view)])

\* result.push(orderWithDetails), then the next iteration or the sort
resumeAtNextOrder ==
    /\ call.pc = "nextOrder"
    /\ IF call.i < Len(call.snapshot)
       THEN GoOn(beginOrder(call, call.i + 1))
       ELSE \E sorted \in SortByDateDesc(call.result, "createdAt") :
               GoOn([call EXCEPT !.pc = "done", !.result = sorted])

\* getDeliveries(): Array.from(this.deliveries.values()) and the first iteration
getDeliveriesCall ==
    /\ call.pc = "idle"
    /\ LET c == [NoCall EXCEPT !.op = "getDeliveries", !.snapshot = Values(deliveries),
                               !.seen = <<Store>>]
       IN  GoOn(IF Len(c.snapshot) = 0 THEN [c EXCEPT !.pc = "done"] ELSE beginDelivery(c, 1))

\* const supplier = order ? await this.getSupplier(order.supplierId) : undefined,
\* and the view returned
resumeAtGetSupplierOfOrder ==
    /\ call.pc = "getSupplierOfOrder"
    /\ LET order == call.part.order
           view == Merge(call.snapshot[call.i],
                         [order |-> Merge(order, [client |-> call.part.client,
                                                  supplier |-> getSupplier(order.supplierId)])])
       IN  GoOn([call EXCEPT !.pc = "nextDelivery", !.part = << >>,
                             !.result = Append(@, view)])

\* result.push(deliveryWithDetails), then the next iteration or the sort
resumeAtNextDelivery ==
    /\ call.pc = "nextDelivery"
    /\ IF call.i < Len(call.snapshot)
       THEN GoOn(beginDelivery(call, call.i + 1))
       ELSE \E sorted \in SortByDateDesc(call.result, "scheduledDate") :
               GoOn([call EXCEPT !.pc = "done", !.result = sorted])

-----------------------------------------------------------------------------
(* client/src/pages/orders.tsx: the rows of the order form.  A quantity is an *)
(* integer, a price an integer number of cents, a decimal text a sign, the    *)
(* digits before the point and the two digits after it.                       *)

MaxRows == 2            \* rows the form is given

FormProducts == {ProductIds[1]}
FormQuantities == {-1, 0, 1, 2}
FormPrices == {0, 500, 1000}
FormData == {[clientId |-> Client1, supplierId |-> NovaAreiao, notes |-> ""]}

\* the text of an amount of cents, two digits after the point
DecimalText(cents) ==
    LET abs == IF cents < 0 THEN -cents ELSE cents
    IN  [sign |-> IF cents < 0 THEN "-" ELSE "", units |-> abs \div 100, hundredths |-> abs % 100]

\* x.toFixed(2), x an amount of cents
toFixed2(cents) == DecimalText(cents)

\* n.toString(), n an integer
toString(n) == DecimalText(100 * n)

\* the form accepts input until it has sent an order
FormStep(rows) ==
    /\ form.sent = << >>
    /\ form' = [form EXCEPT !.orderItems = rows]
    /\ UNCHANGED <<clients, products, suppliers, orders, orderItems, deliveries, invoices,
                   orderCounter, uuids, clock, issued, requests, last, call>>

addItem ==
    /\ Len(form.orderItems) < MaxRows
    /\ FormStep(Append(form.orderItems, NewRow))

removeItem(index) ==
    /\ index \in 1..Len(form.orderItems)
    /\ FormStep(IF Len(form.orderItems) > 1
                THEN [i \in 1..(Len(form.orderItems) - 1) |->
                         form.orderItems[IF i < index THEN i ELSE i + 1]]
                ELSE form.orderItems)

updateItem(index, field, value) ==
    /\ index \in 1..Len(form.orderItems)
    /\ FormStep([form.orderItems EXCEPT ![index] = [@ EXCEPT ![field] = value]])

\* the sum over every row of the form
calculateTotal ==
    LET reduce[i \in 0..Len(form.orderItems)] ==
            IF i = 0 THEN 0
            ELSE reduce[i - 1] + form.orderItems[i].quantity * form.orderItems[i].unitPrice
    IN  reduce[Len(form.orderItems)]

\* item.productId && item.quantity > 0
isValidItem(item) == item.productId # NoId /\ item.quantity > 0

onSubmit(data) ==
    LET validItems == SelectSeq(form.orderItems, isValidItem)
        orderData == [clientId |-> data.clientId, supplierId |-> data.supplierId,
                      notes |-> data.notes, status |-> "pending",
                      totalValue |-> toFixed2(calculateTotal)]
        itemsData == [i \in 1..Len(validItems) |->
                         [orderId |-> NoId,
                          productId |-> validItems[i].productId,
                          quantity |-> toString(validItems[i].quantity),
                          unitPrice |-> toFixed2(validItems[i].unitPrice),
                          totalPrice |-> toFixed2(validItems[i].quantity * validItems[i].unitPrice)]]
    IN  /\ form.sent = << >>
        /\ IF Len(validItems) = 0
           THEN UNCHANGED form
           ELSE form' = [form EXCEPT !.sent = [order |-> orderData, items |-> itemsData]]
        /\ UNCHANGED <<clients, products, suppliers, orders, orderItems, deliveries, invoices,
                       orderCounter, uuids, clock, issued, requests, last, call>>

\* onSuccess of the mutation: the dialog closes and the rows are reset
closeDialog ==
    /\ form.sent # << >>
    /\ form' = [form EXCEPT !.orderItems = <<NewRow>>]
    /\ UNCHANGED <<clients, products, suppliers, orders, orderItems, deliveries, invoices,
                   orderCounter, uuids, clock, issued, requests, last, call>>

-----------------------------------------------------------------------------
(* Time passes *)

Tick ==
    /\ clock < StartClock + MaxTicks
    /\ clock' = clock + 1
    /\ UNCHANGED <<clients, products, suppliers, orders, orderItems, deliveries,
                   invoices, orderCounter, uuids, issued, requests, last, call, form>>

Next ==
    \/ Tick
    \/ \E body \in ClientPostBodies : PostClients(body)
    \/ \E id \in PathIds(clients), body \in ClientPatchBodies : PatchClient(id, body)
    \/ \E id \in PathIds(clients) : DeleteClient(id)
    \/ \E body \in OrderPostBodies : PostOrders(body)
    \/ \E id \in PathIds(orders), body \in OrderPatchBodies : PatchOrder(id, body)
    \/ \E id \in PathIds(orders) : DeleteOrder(id)
    \/ \E body \in DeliveryPostBodies : PostDeliveries(body)
    \/ \E id \in PathIds(deliveries), body \in DeliveryPatchBodies : PatchDelivery(id, body)
    \/ \E body \in InvoicePostBodies : PostInvoices(body)

Spec == Init /\ [][Next]_vars

\* The same server, watched over fewer requests: the specification under which
\* the lists and detail views are compared, in every state, with the maps they
\* are computed from.
MaxViewRequests == 1

NextViews ==
    \/ Tick
    \/ requests < MaxViewRequests /\ \E body \in ClientPostBodies : PostClients(body)
    \/ requests < MaxViewRequests /\
          \E id \in PathIds(clients), body \in ClientPatchBodies : PatchClient(id, body)
    \/ requests < MaxViewRequests /\ \E id \in PathIds(clients) : DeleteClient(id)
    \/ requests < MaxViewRequests /\
          \E body \in OrderPostBodies \cup ViewOrderPostBodies : PostOrders(body)
    \/ requests < MaxViewRequests /\
          \E id \in PathIds(orders), body \in OrderPatchBodies \cup ViewOrderPatchBodies :
             PatchOrder(id, body)
    \/ requests < MaxViewRequests /\ \E id \in PathIds(orders) : DeleteOrder(id)
    \/ requests < MaxViewRequests /\ \E body \in DeliveryPostBodies : PostDeliveries(body)
    \/ requests < MaxViewRequests /\
          \E id \in PathIds(deliveries), body \in DeliveryPatchBodies : PatchDelivery(id, body)
    \/ requests < MaxViewRequests /\ \E body \in InvoicePostBodies : PostInvoices(body)

SpecViews == Init /\ [][NextViews]_vars

\* The same server again, with the reading handlers among its requests.
NextReads ==
    \/ NextViews
    \/ requests < MaxViewRequests /\ GetDashboardStats
    \/ requests < MaxViewRequests /\ GetClients
    \/ requests < MaxViewRequests /\ \E id \in PathIds(clients) : GetClient(id)
    \/ requests < MaxViewRequests /\ GetProducts
    \/ requests < MaxViewRequests /\ GetSuppliers
    \/ requests < MaxViewRequests /\ GetOrders
    \/ requests < MaxViewRequests /\ GetRecentOrders
    \/ requests < MaxViewRequests /\ \E id \in PathIds(orders) : GetOrder(id)
    \/ requests < MaxViewRequests /\ GetDeliveries
    \/ requests < MaxViewRequests /\ GetTodayDeliveries
    \/ requests < MaxViewRequests /\ \E id \in PathIds(deliveries) : GetDelivery(id)
    \/ requests < MaxViewRequests /\ \E orderId \in PathIds(orders) : GetOrderInvoices(orderId)

SpecReads == Init /\ [][NextReads]_vars

\* The server with one getOrders() or getDeliveries() call running: the
\* handlers of other requests run between two steps of the call.
MaxAsyncRequests == 1

NextAsync ==
    \/ getOrdersCall
    \/ resumeAtGetSupplier
    \/ resumeAtGetOrderItems
    \/ resumeAtGetInvoices
    \/ resumeAtGetProduct
    \/ resumeAtNextOrder
    \/ getDeliveriesCall
    \/ resumeAtGetSupplierOfOrder
    \/ resumeAtNextDelivery
    \/ InFlight /\ requests < MaxAsyncRequests /\ \E id \in PathIds(clients) : DeleteClient(id)
    \/ InFlight /\ requests < MaxAsyncRequests /\ \E body \in OrderPostBodies : PostOrders(body)
    \/ InFlight /\ requests < MaxAsyncRequests /\
          \E id \in PathIds(orders), body \in OrderPatchBodies : PatchOrder(id, body)
    \/ InFlight /\ requests < MaxAsyncRequests /\ \E id \in PathIds(orders) : DeleteOrder(id)
    \/ InFlight /\ requests < MaxAsyncRequests /\
          \E body \in DeliveryPostBodies : PostDeliveries(body)
    \/ InFlight /\ requests < MaxAsyncRequests /\
          \E body \in InvoicePostBodies : PostInvoices(body)

SpecAsync == Init /\ [][NextAsync]_vars

\* The order form alone, filled in and submitted once.
NextForm ==
    \/ addItem
    \/ \E index \in 1..MaxRows : removeItem(index)
    \/ \E index \in 1..MaxRows, value \in FormProducts : updateItem(index, "productId", value)
    \/ \E index \in 1..MaxRows, value \in FormQuantities : updateItem(index, "quantity", value)
    \/ \E index \in 1..MaxRows, value \in FormPrices : updateItem(index, "unitPrice", value)
    \/ \E data \in FormData : onSubmit(data)
    \/ closeDialog

SpecForm == Init /\ [][NextForm]_vars

-----------------------------------------------------------------------------
(* Properties *)

\* the step is the handler op answering a request for path identifier id
Served(op, id) == requests' = requests + 1 /\ last'.op = op /\ last'.id = id

\* the keys of the records of map m whose orderId is id
OfOrder(m, id) == {k \in DOMAIN m : m[k].orderId = id}

\* the records of m that do not belong to order id are the same in n
OthersUntouched(m, n, id) ==
    \A k \in (DOMAIN m) \ OfOrder(m, id) : k \in DOMAIN n /\ n[k] = m[k]

\* C1: deleting a stored order answers 204 (deleteOrder returned true) and
\* leaves no order under that id and no order item, delivery or invoice whose
\* orderId is that id, while the records of other orders, and every other
\* order, stay as they were.
C1_DeleteOrderCascades ==
    [][\A id \in DOMAIN orders :
          Served("DELETE /api/orders/:id", id) =>
              /\ last'.status = 204
              /\ id \notin DOMAIN orders'
              /\ OfOrder(orderItems', id) = {}
              /\ OfOrder(deliveries', id) = {}
              /\ OfOrder(invoices', id) = {}
              /\ OthersUntouched(orderItems, orderItems', id)
              /\ OthersUntouched(deliveries, deliveries', id)
              /\ OthersUntouched(invoices, invoices', id)
              /\ \A k \in (DOMAIN orders) \ {id} : k \in DOMAIN orders' /\ orders'[k] = orders[k]
      ]_vars

\* C2: deleting an id that is no stored order answers 404 and changes no
\* entity map: the order items, deliveries and invoices whose orderId is that
\* id stay.
C2_DeleteMissingOrderChangesNothing ==
    [][\A id \in PathIds(orders) \ DOMAIN orders :
          Served("DELETE /api/orders/:id", id) =>
              /\ last'.status = 404
              /\ UNCHANGED store
      ]_vars

\* C3: once a delivery's deliveredAt is set, no step changes it while the
\* delivery is stored: not an update to "delivered", not an update to another
\* status, not an update whose payload carries a deliveredAt.
C3_DeliveredAtSetOnce ==
    [][\A k \in (DOMAIN deliveries) \cap (DOMAIN deliveries') :
          TruthyN(deliveries[k].deliveredAt) =>
              deliveries'[k].deliveredAt = deliveries[k].deliveredAt
      ]_vars

\* the delivery seeded as delivered two days ago was updated twice, the last
\* time to "delivered" with a payload that carries a deliveredAt of its own,
\* and it still has its first deliveredAt
C3_Witness ==
    /\ requests = MaxRequests
    /\ last.op = "PATCH /api/deliveries/:id"
    /\ last.status = 200
    /\ last.id = Delivery3
    /\ last.body = [status |-> "delivered", deliveredAt |-> CallerDate]
    /\ clock > StartClock
    /\ deliveries[Delivery3].status = "delivered"
    /\ deliveries[Delivery3].driverName = "Ana"
    /\ deliveries[Delivery3].deliveredAt = StartClock - 2 * TicksPerDay

\* C4: an update of a stored delivery whose deliveredAt is unset leaves
\* deliveredAt set to the clock's value, at or after the call, when the payload
\* sets status to "delivered", and leaves it unset otherwise.
C4_DeliveredAtStamped ==
    [][\A k \in DOMAIN deliveries :
          (Served("PATCH /api/deliveries/:id", k) /\ ~TruthyN(deliveries[k].deliveredAt)) =>
              IF GetS(last'.body, "status") = "delivered"
              THEN /\ TruthyN(deliveries'[k].deliveredAt)
                   /\ deliveries'[k].deliveredAt >= clock
                   /\ deliveries'[k].deliveredAt <= clock'
              ELSE deliveries'[k].deliveredAt = deliveries[k].deliveredAt
      ]_vars

\* the first request, after a tick, sets a seeded undelivered delivery to "delivered"
C4_Witness ==
    /\ requests = 1
    /\ last.op = "PATCH /api/deliveries/:id"
    /\ last.status = 200
    /\ last.id = Delivery1
    /\ GetS(last.body, "status") = "delivered"
    /\ deliveries[Delivery1].deliveredAt > StartClock
    /\ deliveries[Delivery1].deliveredAt <= clock

\* C5: the numbers given to orders at creation, seeded orders included, are all
\* above the seed value and strictly increasing in creation order, whatever
\* number the payload names and whatever updates and deletes come in between.
C5_OrderNumbersIncrease ==
    \A i \in 1..Len(issued) :
        /\ issued[i].orderNumber > OrderCounterSeed
        /\ \A j \in 1..(i - 1) : issued[j].orderNumber < issued[i].orderNumber

\* two orders were created, the last from a payload naming a number in use
C5_Witness ==
    /\ Len(issued) = Cardinality(DOMAIN seedData(StartClock).orders) + 2
    /\ last.op = "POST /api/orders"
    /\ last.status = 201
    /\ "orderNumber" \in DOMAIN last.body.order
    /\ last.id \in DOMAIN orders
    /\ orders[last.id].orderNumber # last.body.order.orderNumber

\* C6: no two stored orders carry the same orderNumber, and no stored order
\* carries a number that was given at creation to another order.
C6_OrderNumbersNeverReused ==
    /\ \A a, b \in DOMAIN orders : a # b => orders[a].orderNumber # orders[b].orderNumber
    /\ \A k \in DOMAIN orders : \A i \in 1..Len(issued) :
          orders[k].orderNumber = issued[i].orderNumber => issued[i].id = k

\* every property of old that body does not name is in new with the same value
FrameKept(old, new, body, except) ==
    \A f \in ((DOMAIN old) \ (DOMAIN body)) \ except : f \in DOMAIN new /\ new[f] = old[f]

\* C7: a successful PATCH of a client, an order or a delivery leaves every
\* property the request body does not name as it was (deliveredAt apart, which
\* an update to "delivered" stamps); so a PATCH of a delivery whose body has
\* no scheduledDate leaves scheduledDate as it was.
C7_PartialUpdateKeepsOtherFields ==
    [][/\ \A k \in DOMAIN clients :
             (Served("PATCH /api/clients/:id", k) /\ last'.status = 200) =>
                 FrameKept(clients[k], clients'[k], last'.body, {})
       /\ \A k \in DOMAIN orders :
             (Served("PATCH /api/orders/:id", k) /\ last'.status = 200) =>
                 FrameKept(orders[k], orders'[k], last'.body, {})
       /\ \A k \in DOMAIN deliveries :
             (Served("PATCH /api/deliveries/:id", k) /\ last'.status = 200) =>
                 FrameKept(deliveries[k], deliveries'[k], last'.body, {"deliveredAt"})
      ]_vars

\* C8: every stored client, order, delivery and invoice carries the id it is
\* stored under, no order's createdAt and no delivery's deliveredAt is a value
\* a request supplied.
C8_ServerAssignedFieldsKept ==
    /\ \A k \in DOMAIN clients : clients[k].id = k
    /\ \A k \in DOMAIN orders : orders[k].id = k /\ orders[k].createdAt # CallerDate
    /\ \A k \in DOMAIN deliveries : deliveries[k].id = k /\ deliveries[k].deliveredAt # CallerDate
    /\ \A k \in DOMAIN invoices : invoices[k].id = k

UniqueIds(m) == \A a, b \in DOMAIN m : a # b => m[a].id # m[b].id

\* C9: a create answers with an id that is a drawn identifier not drawn before,
\* and no two stored records of one type carry the same id.
C9_IdsUnique ==
    /\ last.status = 201 => (last.id > GhostId /\ last.id > SeedUuids)
    /\ UniqueIds(clients)
    /\ UniqueIds(orders)
    /\ UniqueIds(orderItems)
    /\ UniqueIds(deliveries)
    /\ UniqueIds(invoices)

\* C10: an update of a client, an order or a delivery under an id that is not
\* stored answers 404 and changes no entity map.
C10_UpdateMissingNotFound ==
    [][/\ \A id \in PathIds(clients) \ DOMAIN clients :
             (Served("PATCH /api/clients/:id", id) /\ last'.status # 400) =>
                 (last'.status = 404 /\ UNCHANGED store)
       /\ \A id \in PathIds(orders) \ DOMAIN orders :
             Served("PATCH /api/orders/:id", id) =>
                 (last'.status = 404 /\ UNCHANGED store)
       /\ \A id \in PathIds(deliveries) \ DOMAIN deliveries :
             Served("PATCH /api/deliveries/:id", id) =>
                 (last'.status = 404 /\ UNCHANGED store)
      ]_vars

\* an order update with a payload was sent to an id that is not stored
C10_Witness ==
    /\ last.op = "PATCH /api/orders/:id"
    /\ last.id \notin DOMAIN orders
    /\ last.body = [status |-> "confirmed"]
    /\ last.status = 404

\* C11: whenever POST /api/orders answers 400 or 500, no order and no order
\* item has been added to storage: a request whose items array holds an element
\* that makes item processing fail leaves neither the order nor any earlier
\* item stored.
C11_PostOrdersAllOrNothing ==
    [][(requests' = requests + 1 /\ last'.op = "POST /api/orders" /\ last'.status \in {400, 500}) =>
          (orders' = orders /\ orderItems' = orderItems)
      ]_vars

OrderStatuses == {"pending", "confirmed", "delivered", "cancelled"}
DeliveryStatuses == {"pending", "in_transit", "delivered", "cancelled"}

\* C12: every stored order's status is one of pending, confirmed, delivered,
\* cancelled and every stored delivery's status is one of pending, in_transit,
\* delivered, cancelled, whatever status the request bodies carry.
C12_StatusesInEnum ==
    /\ \A k \in DOMAIN orders : orders[k].status \in OrderStatuses
    /\ \A k \in DOMAIN deliveries : deliveries[k].status \in DeliveryStatuses

\* C13: referential integrity holds in every reachable state: every stored
\* order's clientId and supplierId name a stored client and supplier, every
\* order item's productId and orderId name a stored product and order, and
\* every delivery's and invoice's orderId names a stored order.
C13_ReferentialIntegrity ==
    /\ \A k \in DOMAIN orders :
          orders[k].clientId \in DOMAIN clients /\ orders[k].supplierId \in DOMAIN suppliers
    /\ \A k \in DOMAIN orderItems :
          orderItems[k].productId \in DOMAIN products /\ orderItems[k].orderId \in DOMAIN orders
    /\ \A k \in DOMAIN deliveries : deliveries[k].orderId \in DOMAIN orders
    /\ \A k \in DOMAIN invoices : invoices[k].orderId \in DOMAIN orders

\* C14: a create applies the defaults: an order or delivery created without a
\* status is stored with status "pending", an order created without totalValue
\* with "0", a created delivery with deliveredAt unset, and a client created
\* without an active field with active = true.
C14_CreateDefaults ==
    LET body == last.body
    IN  /\ (last.op = "POST /api/orders" /\ last.status = 201 /\ last.id \in DOMAIN orders) =>
              /\ "status" \notin DOMAIN body.order => GetS(orders[last.id], "status") = "pending"
              /\ "totalValue" \notin DOMAIN body.order => GetS(orders[last.id], "totalValue") = "0"
        /\ (last.op = "POST /api/deliveries" /\ last.status = 201 /\ last.id \in DOMAIN deliveries) =>
              /\ "status" \notin DOMAIN body => GetS(deliveries[last.id], "status") = "pending"
              /\ ~TruthyN(GetN(deliveries[last.id], "deliveredAt"))
        /\ (last.op = "POST /api/clients" /\ last.status = 201 /\ last.id \in DOMAIN clients) =>
              ("active" \notin DOMAIN body =>
                  ("active" \in DOMAIN clients[last.id] /\ clients[last.id].active = TRUE))

\* C15: a client created from an insertable payload is read back by getClient
\* under the returned id with every supplied field as supplied and with that
\* id, and a stored client reads back the same after every step that is not an
\* update or a delete of that client.
C15_ClientRoundTrip ==
    [][/\ \A id \in (uuids + 1)..uuids' :
             (Served("POST /api/clients", id) /\ last'.status = 201) =>
                 LET got == getClient(id)'
                     c == last'.body
                 IN  /\ got # UndefinedObj
                     /\ got.id = id
                     /\ getClient(id) = UndefinedObj
                     /\ \A f \in (DOMAIN c) \cap InsertClientKeys : f \in DOMAIN got /\ got[f] = c[f]
       /\ (requests' = requests + 1 /\ last'.op = "POST /api/clients" /\ last'.status = 201) =>
             last'.id \in (uuids + 1)..uuids'
       /\ \A k \in DOMAIN clients :
             (~Served("PATCH /api/clients/:id", k) /\ ~Served("DELETE /api/clients/:id", k)) =>
                 getClient(k)' = getClient(k)
      ]_vars

\* a client was created with a null trade name, then another client was
\* deleted, and the created client still reads back as supplied
C15_Witness ==
    /\ requests = 2
    /\ last.op = "DELETE /api/clients/:id"
    /\ last.id = Client1
    /\ last.status = 204
    /\ getClient(SeedUuids + 1) = [id |-> SeedUuids + 1, type |-> "PJ", name |-> "Obra",
                                   document |-> "222", tradeName |-> NullStr]

\* the items of view are the items of the request, in order, each with the
\* supplied productId, quantity, unitPrice and totalPrice and with orderId id
ItemsAsSupplied(view, items, id) ==
    /\ Len(view.items) = Len(items)
    /\ \A i \in 1..Len(items) :
          /\ view.items[i].orderId = id
          /\ view.items[i].productId = GetN(items[i], "productId")
          /\ view.items[i].quantity = GetS(items[i], "quantity")
          /\ view.items[i].unitPrice = GetS(items[i], "unitPrice")
          /\ view.items[i].totalPrice = GetS(items[i], "totalPrice")

\* C16 as stated: after a successful create, getOrder of the returned id
\* yields exactly the supplied items, each linked to the new order's id
\* whatever orderId the input item carries, and the totalValue the caller
\* supplied, verbatim.
C16_TotalValueVerbatim ==
    (last.op = "POST /api/orders" /\ last.status = 201) =>
        LET view == getOrder(last.id)
        IN  /\ view # UndefinedObj
            /\ ItemsAsSupplied(view, last.body.items, last.id)
            /\ "totalValue" \in DOMAIN last.body.order =>
                  view.totalValue = last.body.order.totalValue

\* C16, amended: after a successful create, getOrder of the returned id yields
\* exactly the supplied items, each linked to the new order's id whatever
\* orderId the input item carries, and the totalValue the caller supplied
\* verbatim when that is a non-empty string; an empty totalValue is stored as
\* "0", as a missing one is.  The sum of the items plays no part.
C16_CreateOrderRoundTrip ==
    (last.op = "POST /api/orders" /\ last.status = 201) =>
        LET view == getOrder(last.id)
            supplied == GetS(last.body.order, "totalValue")
        IN  /\ view # UndefinedObj
            /\ ItemsAsSupplied(view, last.body.items, last.id)
            /\ view.totalValue = IF supplied \in {"", UndefStr} THEN "0" ELSE supplied

\* an order was created with two items, the first naming another order, and a
\* totalValue that is not the sum the storage would compute for other items
C16_Witness ==
    /\ last.op = "POST /api/orders"
    /\ last.status = 201
    /\ last.body.items = <<ItemA, ItemB>>
    /\ ItemA.orderId # last.id
    /\ Len(getOrder(last.id).items) = 2
    /\ getOrder(last.id).items[1].orderId = last.id
    /\ getOrder(last.id).items[2].totalPrice = "3750.00"
    /\ getOrder(last.id).totalValue = "8250.00"

\* entry e carries every property of record r with r's value
Covers(e, r) == \A f \in DOMAIN r : f \in DOMAIN e /\ e[f] = r[f]

\* the array arr holds the records of m under keys, each once, and no other
ExactlyRecords(arr, m, keys) ==
    /\ Len(arr) = Cardinality(keys)
    /\ \A k \in keys : \E i \in 1..Len(arr) : Covers(arr[i], m[k])
    /\ \A i \in 1..Len(arr) : \E k \in keys : Covers(arr[i], m[k])

\* entry e of an order view is the join of its order with the other maps
ExactJoin(e) ==
    /\ ExactlyRecords(e.items, orderItems, OfOrder(orderItems, e.id))
    /\ ExactlyRecords(e.deliveries, deliveries, OfOrder(deliveries, e.id))
    /\ ExactlyRecords(e.invoices, invoices, OfOrder(invoices, e.id))
    /\ e.clientId \in DOMAIN clients => e.client = clients[e.clientId]
    /\ e.supplierId \in DOMAIN suppliers => e.supplier = suppliers[e.supplierId]
    /\ \A i \in 1..Len(e.items) :
          e.items[i].productId \in DOMAIN products =>
              e.items[i].product = products[e.items[i].productId]

\* C17: getOrders returns one entry per stored order, and each entry, like the
\* one getOrder returns, carries exactly the order items, deliveries and
\* invoices whose orderId is the id of that entry, none missing and none of
\* another order, with the client and supplier its references name.
C17_OrderViewExactJoin ==
    /\ \A all \in getOrders :
          /\ ExactlyRecords(all, orders, DOMAIN orders)
          /\ \A i \in 1..Len(all) : ExactJoin(all[i])
    /\ \A k \in DOMAIN orders : Covers(getOrder(k), orders[k]) /\ ExactJoin(getOrder(k))

\* a delivery was added to the first seeded order: its view has two
\* deliveries and no invoice, the views of the others have their own records
C17_Witness ==
    /\ last.op = "POST /api/deliveries"
    /\ {Order1, Order2, Order3} \subseteq DOMAIN orders
    /\ Len(getOrder(Order1).deliveries) = 2
    /\ Len(getOrder(Order1).invoices) = 0
    /\ Len(getOrder(Order3).deliveries) = 1
    /\ Len(getOrder(Order2).items) = 2
    /\ Len(getOrder(Order2).invoices) = 0
    /\ Len(getOrder(Order3).invoices) = 1
    /\ getOrder(Order3).client = clients[Client1]

RecentLimit == 5    \* storage.getRecentOrders(5)

SortedDesc(arr, f) ==
    \A i, j \in 1..Len(arr) :
        i < j => ~(NewDate(GetN(arr[i], f)) >= 0 /\ NewDate(GetN(arr[j], f)) >= 0
                   /\ NewDate(GetN(arr[i], f)) < NewDate(GetN(arr[j], f)))

\* C19: every list of deliveries the storage returns, by getDeliveries and by
\* getTodayDeliveries, is sorted by scheduledDate descending.
C19_DeliveryListsSorted ==
    /\ \A all \in getDeliveries : SortedDesc(all, "scheduledDate")
    /\ SortedDesc(getTodayDeliveries, "scheduledDate")

\* the local day of instant t, and the midnight that starts day D
DayOf(t) == t \div TicksPerDay
Midnight(D) == D * TicksPerDay

\* C20: getTodayDeliveries called at an instant of day D returns exactly the
\* stored deliveries whose scheduledDate t has midnight(D) <= t < midnight(D+1):
\* one scheduled at midnight of D is in it, one at the last instant of D-1 and
\* one at midnight of D+1 are not.
C20_TodayWindow ==
    LET D == DayOf(clock)
        t(k) == NewDate(GetN(deliveries[k], "scheduledDate"))
        due == {k \in DOMAIN deliveries : t(k) >= 0 /\ Midnight(D) <= t(k) /\ t(k) < Midnight(D + 1)}
        listed(k) == \E i \in 1..Len(getTodayDeliveries) : getTodayDeliveries[i].id = deliveries[k].id
    IN  /\ ExactlyRecords(getTodayDeliveries, deliveries, due)
        /\ \A k \in DOMAIN deliveries :
              /\ t(k) = Midnight(D) => listed(k)
              /\ (UniqueIds(deliveries) /\ t(k) \in {Midnight(D) - 1, Midnight(D + 1)}) => ~listed(k)

\* a delivery scheduled at midnight of tomorrow was created: it is stored and
\* today's list holds the two deliveries seeded for today, not that one
C20_Witness ==
    /\ last.op = "POST /api/deliveries"
    /\ last.id \in DOMAIN deliveries
    /\ deliveries[last.id].scheduledDate = Midnight(DayOf(clock) + 1)
    /\ Len(getTodayDeliveries) = 2
    /\ \A i \in 1..2 : getTodayDeliveries[i].id # last.id

\* C21: in every reachable state getDashboardStats returns pendingOrders equal
\* to the number of stored orders with status "pending", activeClients equal
\* to the number of stored clients whose active is true, and todayDeliveries
\* equal to the number of deliveries getTodayDeliveries returns in that state.
C21_DashboardCounts ==
    LET stats == getDashboardStats
    IN  /\ stats.pendingOrders =
              Cardinality({k \in DOMAIN orders : orders[k].status = "pending"})
        /\ stats.activeClients =
              Cardinality({k \in DOMAIN clients :
                              "active" \in DOMAIN clients[k] /\ clients[k].active = TRUE})
        /\ stats.todayDeliveries = Len(getTodayDeliveries)

\* a client was stored without an active field and is not counted, while a
\* delivery is scheduled today
C21_Witness ==
    /\ \E k \in DOMAIN clients : "active" \notin DOMAIN clients[k]
    /\ getDashboardStats.activeClients = 3
    /\ getDashboardStats.todayDeliveries > 0

\* the month an instant falls in, counted from the epoch
MonthOf(t) == t \div (TicksPerDay * DaysPerMonth)

\* the cents an order adds to a total: nothing for an empty, null or missing
\* totalValue
Contribution(o) ==
    IF "totalValue" \notin DOMAIN o \/ o.totalValue \in {"", NullStr, UndefStr}
    THEN 0
    ELSE parseFloat(o.totalValue)

\* the sum of Contribution over the orders stored under the keys of S
SumOfOrders(S) ==
    LET sum[T \in SUBSET S] ==
            IF T = {} THEN 0
            ELSE LET k == CHOOSE x \in T : TRUE
                 IN  Contribution(orders[k]) + sum[T \ {k}]
    IN  sum[S]

\* C22: monthlyValue is the sum of totalValue over exactly the stored orders
\* whose createdAt is an instant of the current calendar month or later;
\* orders of earlier months add nothing, and an order whose totalValue is
\* empty, null or missing adds zero and leaves the sum a number.
C22_MonthlyValue ==
    LET thisMonth == {k \in DOMAIN orders :
                         /\ orders[k].createdAt >= 0
                         /\ MonthOf(orders[k].createdAt) >= MonthOf(clock)}
    IN  /\ getDashboardStats.monthlyValue # NaN
        /\ getDashboardStats.monthlyValue = SumOfOrders(thisMonth)

\* an order of the current month has an empty or null totalValue while an
\* order of an earlier month is stored with a total of its own
C22_Witness ==
    /\ \E k \in DOMAIN orders :
          /\ MonthOf(orders[k].createdAt) = MonthOf(clock)
          /\ orders[k].totalValue \in {"", NullStr}
    /\ \E k \in DOMAIN orders :
          /\ orders[k].createdAt >= 0
          /\ MonthOf(orders[k].createdAt) < MonthOf(clock)
          /\ Contribution(orders[k]) > 0

\* C23: every endpoint that takes an id in its path answers 404 when no record
\* is stored under that id: GET, PATCH and DELETE of a client and of an order,
\* GET and PATCH of a delivery, and GET /api/orders/:orderId/invoices (a PATCH
\* of a client whose body fails validation apart, which is answered 400).
C23_UnresolvedIdNotFound ==
    [][/\ \A id \in PathIds(clients) \ DOMAIN clients :
             /\ Served("GET /api/clients/:id", id) => last'.status = 404
             /\ Served("PATCH /api/clients/:id", id) => last'.status \in {404, 400}
             /\ Served("DELETE /api/clients/:id", id) => last'.status = 404
       /\ \A id \in PathIds(orders) \ DOMAIN orders :
             /\ Served("GET /api/orders/:id", id) => last'.status = 404
             /\ Served("PATCH /api/orders/:id", id) => last'.status = 404
             /\ Served("DELETE /api/orders/:id", id) => last'.status = 404
             /\ Served("GET /api/orders/:orderId/invoices", id) => last'.status = 404
       /\ \A id \in PathIds(deliveries) \ DOMAIN deliveries :
             /\ Served("GET /api/deliveries/:id", id) => last'.status = 404
             /\ Served("PATCH /api/deliveries/:id", id) => last'.status = 404
      ]_vars

\* the fields a body must carry, by entity
OrderRequired == {"clientId", "supplierId"}
DeliveryRequired == {"orderId", "scheduledDate"}
InvoiceRequired == {"orderId", "invoiceNumber", "issueDate"}

\* C24: a POST to /api/clients, /api/orders, /api/deliveries or /api/invoices
\* whose body lacks a required field of the entity is not answered 201 and
\* adds no record.
C24_MissingFieldRejected ==
    [][/\ (Served("POST /api/clients", last'.id) /\ ~(ClientRequired \subseteq DOMAIN last'.body)) =>
             (last'.status # 201 /\ clients' = clients)
       /\ (/\ Served("POST /api/orders", last'.id)
           /\ \/ "order" \notin DOMAIN last'.body
              \/ ~(OrderRequired \subseteq DOMAIN last'.body.order)) =>
             (last'.status # 201 /\ orders' = orders /\ orderItems' = orderItems)
       /\ (Served("POST /api/deliveries", last'.id) /\ ~(DeliveryRequired \subseteq DOMAIN last'.body)) =>
             (last'.status # 201 /\ deliveries' = deliveries)
       /\ (Served("POST /api/invoices", last'.id) /\ ~(InvoiceRequired \subseteq DOMAIN last'.body)) =>
             (last'.status # 201 /\ invoices' = invoices)
      ]_vars

\* the requests that read
ReadOps ==
    { "GET /api/dashboard/stats", "GET /api/clients", "GET /api/clients/:id",
      "GET /api/products", "GET /api/suppliers", "GET /api/orders",
      "GET /api/orders/recent", "GET /api/orders/:id", "GET /api/deliveries",
      "GET /api/deliveries/today", "GET /api/deliveries/:id",
      "GET /api/orders/:orderId/invoices" }

\* C25: a read (a get by id, a list, a list with details, getRecentOrders,
\* getTodayDeliveries, getOrderItems, getInvoices, getDashboardStats) leaves
\* every entity map and the order counter as they were, so that the
\* pendingOrders of getDashboardStats is after the read what it was before.
C25_ReadsChangeNothing ==
    [][(requests' = requests + 1 /\ last'.op \in ReadOps) =>
          /\ UNCHANGED <<store, orderCounter>>
          /\ getDashboardStats'.pendingOrders = getDashboardStats.pendingOrders
      ]_vars

\* a delivery that is stored was read by its id
C25_Witness ==
    /\ last.op = "GET /api/deliveries/:id"
    /\ last.id \in DOMAIN deliveries
    /\ last.status = 200

\* map.get(k) in the map m of a state of the store
Lookup(m, k) == IF k \in DOMAIN m THEN m[k] ELSE UndefinedObj

\* the detail view of order o in the state st of the store
OrderViewIn(st, o) ==
    LET its == InOrder(st.orderItems, {k \in DOMAIN st.orderItems : st.orderItems[k].orderId = o.id})
    IN  Merge(o, [client |-> Lookup(st.clients, o.clientId),
                  supplier |-> Lookup(st.suppliers, o.supplierId),
                  items |-> [j \in 1..Len(its) |->
                                Merge(its[j], [product |-> Lookup(st.products, its[j].productId)])],
                  deliveries |-> InOrder(st.deliveries,
                                    {k \in DOMAIN st.deliveries : st.deliveries[k].orderId = o.id}),
                  invoices |-> InOrder(st.invoices,
                                  {k \in DOMAIN st.invoices : st.invoices[k].orderId = o.id})])

\* the detail view of delivery d in the state st of the store
DeliveryViewIn(st, d) ==
    LET o == Lookup(st.orders, d.orderId)
    IN  Merge(d, [order |-> IF o = UndefinedObj THEN UndefinedObj
                            ELSE Merge(o, [client |-> Lookup(st.clients, o.clientId),
                                           supplier |-> Lookup(st.suppliers, o.supplierId)])])

\* C26: when the handlers of other requests run at the await points of
\* getOrders() and getDeliveries(), every entry of the list returned is the
\* detail view of a stored record in one of the states the store went through
\* during the call: no order is returned without the items, deliveries or
\* invoices a deleteOrder removed in between, and no delivery with an order
\* that is undefined because it was deleted in between.
C26_ViewsOfOneSnapshot ==
    call.pc = "done" =>
        \A n \in 1..Len(call.result) :
            \E m \in 1..Len(call.seen) :
                LET st == call.seen[m]
                    e == call.result[n]
                IN  IF call.op = "getOrders"
                    THEN \E k \in DOMAIN st.orders : e = OrderViewIn(st, st.orders[k])
                    ELSE \E k \in DOMAIN st.deliveries : e = DeliveryViewIn(st, st.deliveries[k])

\* the amount of cents a decimal text denotes
CentsOf(text) == (IF text.sign = "-" THEN -1 ELSE 1) * (100 * text.units + text.hundredths)

C28_DeliveredHasTimestamp ==
    \A k \in DOMAIN deliveries :
        GetS(deliveries[k], "status") = "delivered" => TruthyN(GetN(deliveries[k], "deliveredAt"))

\* C29: an order item, a delivery or an invoice leaves storage only in a
\* DELETE of the order its orderId names, a client only in a DELETE of that
\* client, an order only in a DELETE of that order, and the products and the
\* suppliers are in every state the seeded ones.
C29_DestroyedOnlyByDeletes ==
    [][/\ \A k \in (DOMAIN orderItems) \ (DOMAIN orderItems') :
             Served("DELETE /api/orders/:id", orderItems[k].orderId)
       /\ \A k \in (DOMAIN deliveries) \ (DOMAIN deliveries') :
             Served("DELETE /api/orders/:id", deliveries[k].orderId)
       /\ \A k \in (DOMAIN invoices) \ (DOMAIN invoices') :
             Served("DELETE /api/orders/:id", invoices[k].orderId)
       /\ \A k \in (DOMAIN clients) \ (DOMAIN clients') : Served("DELETE /api/clients/:id", k)
       /\ \A k \in (DOMAIN orders) \ (DOMAIN orders') : Served("DELETE /api/orders/:id", k)
       /\ products' = seedData(StartClock).products
       /\ suppliers' = seedData(StartClock).suppliers
      ]_vars

\* C30: a mutation touches its own collection only, the cascade of an order
\* apart: an update of a delivery, one to "delivered" included, leaves every
\* order as it was, status included; a created delivery or invoice leaves the
\* orders as they were; a deleted client is the only record removed, and the
\* orders, items, deliveries and invoices that reference it stay; an update of
\* an order leaves items, deliveries and invoices as they were.
C30_MutationsKeepToTheirCollection ==
    [][/\ Served("PATCH /api/deliveries/:id", last'.id) =>
             UNCHANGED <<clients, products, suppliers, orders, orderItems, invoices>>
       /\ Served("POST /api/deliveries", last'.id) =>
             UNCHANGED <<clients, products, suppliers, orders, orderItems, invoices>>
       /\ Served("POST /api/invoices", last'.id) =>
             UNCHANGED <<clients, products, suppliers, orders, orderItems, deliveries>>
       /\ Served("DELETE /api/clients/:id", last'.id) =>
             /\ UNCHANGED <<products, suppliers, orders, orderItems, deliveries, invoices>>
             /\ clients' = MapDelete(clients, {last'.id})
       /\ Served("PATCH /api/orders/:id", last'.id) =>
             UNCHANGED <<clients, products, suppliers, orderItems, deliveries, invoices>>
      ]_vars

\* a delivery was updated to "delivered" and stamped while its order is still
\* pending
C30_Witness ==
    /\ last.op = "PATCH /api/deliveries/:id"
    /\ last.status = 200
    /\ last.body = [status |-> "delivered"]
    /\ deliveries[last.id].deliveredAt = clock
    /\ deliveries[last.id].orderId \in DOMAIN orders
    /\ orders[deliveries[last.id].orderId].status = "pending"

====
